---- MODULE Spec2Model ----
(***************************************************************************)
(* The product catalog REST service: the route handlers of                 *)
(* service/routes.py over the Product model (service/models.py) and the    *)
(* error handlers (service/common/error_handlers.py).                      *)
(*                                                                         *)
(* Strings that the code inspects (query parameters, path segments, names, *)
(* serialized prices and categories) are sequences of one-character        *)
(* strings, so that int(), str(), upper() and the enum lookups are         *)
(* computed and not assumed.  Header values and message fragments are only *)
(* compared for equality and are TLA+ strings.                             *)
(***************************************************************************)
EXTENDS Integers, Sequences, FiniteSets, TLC

VARIABLES
    rows,       \* the Product table: a set of product records
    next_id,    \* the next id the store assigns
    request,    \* the last request handled
    response,   \* the response to it
    before,     \* the Product table as it was when that request or call began
    the_product, \* the Product instance a caller of the model holds
    call,       \* the last call made on the model, and how it ended
    threads     \* the requests in flight when handlers interleave

vars == <<rows, next_id, request, response, before, the_product, call, threads>>

\* The number of ids the store hands out in one run.
MaxProducts == 2

-----------------------------------------------------------------------------
(* Python values *)

\* None, for the integer-valued attributes (id, price, category).
None == 0 - 1

\* None, for the string-valued attributes: no string, a sequence of
\* one-character strings, equals it.
NoneStr == <<"None">>

LowerChars == <<"a","b","c","d","e","f","g","h","i","j","k","l","m",
                "n","o","p","q","r","s","t","u","v","w","x","y","z">>
UpperChars == <<"A","B","C","D","E","F","G","H","I","J","K","L","M",
                "N","O","P","Q","R","S","T","U","V","W","X","Y","Z">>
DigitChars == <<"0","1","2","3","4","5","6","7","8","9">>

\* str.upper()
UpperChar(c) ==
    IF \E i \in DOMAIN LowerChars : LowerChars[i] = c
    THEN UpperChars[CHOOSE i \in DOMAIN LowerChars : LowerChars[i] = c]
    ELSE c

upper(s) == [i \in DOMAIN s |-> UpperChar(s[i])]

IsDigit(c) == \E i \in DOMAIN DigitChars : DigitChars[i] = c

DigitVal(c) == (CHOOSE i \in DOMAIN DigitChars : DigitChars[i] = c) - 1

RECURSIVE DigitsVal(_)
DigitsVal(s) ==
    IF Len(s) = 0 THEN 0
    ELSE 10 * DigitsVal(SubSeq(s, 1, Len(s) - 1)) + DigitVal(s[Len(s)])

AllDigits(s) == Len(s) > 0 /\ \A i \in DOMAIN s : IsDigit(s[i])

\* int(s) succeeds: an optional sign, then digits.  (The inputs hold no
\* white space and no underscores, which int() also accepts.)
IsInt(s) ==
    /\ Len(s) > 0
    /\ IF s[1] \in {"+", "-"} THEN AllDigits(Tail(s)) ELSE AllDigits(s)

\* int(s), for IsInt(s)
IntOf(s) ==
    IF s[1] = "-" THEN 0 - DigitsVal(Tail(s))
    ELSE IF s[1] = "+" THEN DigitsVal(Tail(s))
    ELSE DigitsVal(s)

\* str(n) of an integer
RECURSIVE NatStr(_)
NatStr(n) ==
    IF n < 10 THEN <<DigitChars[n + 1]>>
    ELSE NatStr(n \div 10) \o <<DigitChars[(n % 10) + 1]>>

IntStr(n) == IF n < 0 THEN <<"-">> \o NatStr(0 - n) ELSE NatStr(n)

-----------------------------------------------------------------------------
(* JSON values: one record shape for every type *)

JStr(s)  == [t |-> "str",  s |-> s,    b |-> FALSE, n |-> 0]
JBool(b) == [t |-> "bool", s |-> <<>>, b |-> b,     n |-> 0]
JNum(n)  == [t |-> "num",  s |-> <<>>, b |-> FALSE, n |-> n]
JNull    == [t |-> "null", s |-> <<>>, b |-> FALSE, n |-> 0]
JObject  == [t |-> "obj",  s |-> <<>>, b |-> FALSE, n |-> 0]   \* {}
JList    == [t |-> "list", s |-> <<>>, b |-> FALSE, n |-> 0]   \* []

\* A mapping with no key.
EmptyDict == [k \in {} |-> JNull]

Without(d, key) == [k \in (DOMAIN d) \ {key} |-> d[k]]

With(d, key, v) == [k \in (DOMAIN d) \cup {key} |-> IF k = key THEN v ELSE d[k]]

-----------------------------------------------------------------------------
(* The Category enumeration: a member is its value; its name is a string *)

CategoryNames ==
    <<  <<"U","N","K","N","O","W","N">>,
        <<"C","L","O","T","H","S">>,
        <<"F","O","O","D">>,
        <<"H","O","U","S","E","W","A","R","E","S">>,
        <<"A","U","T","O","M","O","T","I","V","E">>,
        <<"T","O","O","L","S">>  >>

Category == {i - 1 : i \in DOMAIN CategoryNames}

\* member.name
CategoryName(c) == CategoryNames[c + 1]

\* Category(value): the member, or ValueError (None)
CategoryByValue(v) == IF v \in Category THEN v ELSE None

\* Category[name], getattr(Category, name): the member, or KeyError /
\* AttributeError (None)
CategoryByName(s) ==
    IF \E c \in Category : CategoryName(c) = s
    THEN CHOOSE c \in Category : CategoryName(c) = s
    ELSE None

UNKNOWN == CategoryByName(<<"U","N","K","N","O","W","N">>)
CLOTHS  == CategoryByName(<<"C","L","O","T","H","S">>)
FOOD    == CategoryByName(<<"F","O","O","D">>)

-----------------------------------------------------------------------------
(* HTTP status codes *)

HTTP_200_OK == 200
HTTP_201_CREATED == 201
HTTP_204_NO_CONTENT == 204
HTTP_400_BAD_REQUEST == 400
HTTP_404_NOT_FOUND == 404
HTTP_415_UNSUPPORTED_MEDIA_TYPE == 415
HTTP_500_INTERNAL_SERVER_ERROR == 500

-----------------------------------------------------------------------------
(* service/models.py: the Product model *)

\* Product(): an instance with nothing set
Product ==
    [id |-> None, name |-> NoneStr, description |-> NoneStr, price |-> None,
     available |-> FALSE, category |-> None]

\* The price written with its last digit only.
DecimalStr_LastDigit(d) == IntStr(d % 10)

\* str(Decimal): the price as a numeric string
DecimalStr(d) == IntStr(d)

\* Decimal(value) succeeds: a number, or a numeric string
IsDecimal(v) == v.t = "num" \/ (v.t = "str" /\ IsInt(v.s))

\* Decimal(value), for IsDecimal(value)
Decimal(v) == IF v.t = "num" THEN v.n ELSE IntOf(v.s)

SerializedKeys == {"id", "name", "description", "price", "available", "category"}

\* Product.serialize(): the price as a string, the category as its name
serialize(self) ==
    [k \in SerializedKeys |->
        CASE k = "id" -> IF self.id = None THEN JNull ELSE JNum(self.id)
          [] k = "name" -> JStr(self.name)
          [] k = "description" ->
                IF self.description = NoneStr THEN JNull ELSE JStr(self.description)
          [] k = "price" -> JStr(DecimalStr(self.price))
          [] k = "available" -> JBool(self.available)
          [] k = "category" -> JStr(CategoryName(self.category))]

\* The outcome of a call that may raise: ok, or the exception and its message.
Returned(product) == [ok |-> TRUE, product |-> product, error |-> "", message |-> <<>>]

Raised(product, error, message) ==
    [ok |-> FALSE, product |-> product, error |-> error, message |-> message]

\* deserialize() taking available by its truth value, as bool() would.
deserialize_Coercing(self, data) ==
    LET name ==
            IF "name" \notin DOMAIN data
            THEN Raised(self, "DataValidationError", <<"Invalid product: missing ", "name">>)
            ELSE IF data["name"].t # "str"
            THEN Raised(self, "DataValidationError", <<"Invalid type for string [name]">>)
            ELSE Returned([self EXCEPT !.name = data["name"].s])
        description ==
            IF ~name.ok THEN name
            ELSE IF "description" \in DOMAIN data /\ data["description"].t = "str"
            THEN Returned([name.product EXCEPT !.description = data["description"].s])
            ELSE name
        price ==
            IF ~description.ok THEN description
            ELSE IF "price" \notin DOMAIN data
            THEN Raised(description.product, "DataValidationError",
                        <<"Invalid product: missing ", "price">>)
            ELSE IF ~IsDecimal(data["price"])
            THEN Raised(description.product, "DataValidationError",
                        <<"Invalid type for decimal [price]">>)
            ELSE Returned([description.product EXCEPT !.price = Decimal(data["price"])])
        available ==
            IF ~price.ok THEN price
            ELSE IF "available" \notin DOMAIN data
            THEN Raised(price.product, "DataValidationError",
                        <<"Invalid product: missing ", "available">>)
            ELSE Returned([price.product EXCEPT
                              !.available =
                                  \/ data["available"].t = "bool" /\ data["available"].b
                                  \/ data["available"].t = "str" /\ data["available"].s # <<>>
                                  \/ data["available"].t = "num" /\ data["available"].n # 0])
        category ==
            IF ~available.ok THEN available
            ELSE IF "category" \notin DOMAIN data
            THEN Raised(available.product, "DataValidationError",
                        <<"Invalid product: missing ", "category">>)
            ELSE IF data["category"].t # "str" \/ CategoryByName(data["category"].s) = None
            THEN Raised(available.product, "DataValidationError",
                        <<"Invalid attribute [category]">>)
            ELSE Returned([available.product EXCEPT
                              !.category = CategoryByName(data["category"].s)])
    IN category

\* Product.deserialize(data): the attributes are set one after the other, so
\* those before the failing one keep the payload's values on the instance.
deserialize(self, data) ==
    LET name ==
            IF "name" \notin DOMAIN data
            THEN Raised(self, "DataValidationError", <<"Invalid product: missing ", "name">>)
            ELSE IF data["name"].t # "str"
            THEN Raised(self, "DataValidationError", <<"Invalid type for string [name]">>)
            ELSE Returned([self EXCEPT !.name = data["name"].s])
        description ==
            IF ~name.ok THEN name
            ELSE IF "description" \in DOMAIN data /\ data["description"].t = "str"
            THEN Returned([name.product EXCEPT !.description = data["description"].s])
            ELSE name
        price ==
            IF ~description.ok THEN description
            ELSE IF "price" \notin DOMAIN data
            THEN Raised(description.product, "DataValidationError",
                        <<"Invalid product: missing ", "price">>)
            ELSE IF ~IsDecimal(data["price"])
            THEN Raised(description.product, "DataValidationError",
                        <<"Invalid type for decimal [price]">>)
            ELSE Returned([description.product EXCEPT !.price = Decimal(data["price"])])
        available ==
            IF ~price.ok THEN price
            ELSE IF "available" \notin DOMAIN data
            THEN Raised(price.product, "DataValidationError",
                        <<"Invalid product: missing ", "available">>)
            ELSE IF data["available"].t # "bool"
            THEN Raised(price.product, "DataValidationError",
                        <<"Invalid type for boolean [available]">>)
            ELSE Returned([price.product EXCEPT !.available = data["available"].b])
        category ==
            IF ~available.ok THEN available
            ELSE IF "category" \notin DOMAIN data
            THEN Raised(available.product, "DataValidationError",
                        <<"Invalid product: missing ", "category">>)
            ELSE IF data["category"].t # "str" \/ CategoryByName(data["category"].s) = None
            THEN Raised(available.product, "DataValidationError",
                        <<"Invalid attribute [category]">>)
            ELSE Returned([available.product EXCEPT
                              !.category = CategoryByName(data["category"].s)])
    IN category

\* Product.create(): the store assigns the id, whatever id the instance had
create(self, table, seq) ==
    LET product == [self EXCEPT !.id = seq]
    IN [product |-> product, rows |-> table \cup {product}, next_id |-> seq + 1]

\* update() without its check of the id: the instance is persisted as it is.
update_WithoutIdCheck(self, table) ==
    [ok |-> TRUE, error |-> "", rows |-> {r \in table : r.id # self.id} \cup {self}]

\* Product.update(): the row of self.id takes the instance's values
update(self, table) ==
    IF self.id = None
    THEN [ok |-> FALSE, error |-> "DataValidationError", rows |-> table]
    ELSE [ok |-> TRUE, error |-> "",
          rows |-> {r \in table : r.id # self.id} \cup {self}]

\* Product.delete(): the row of self.id is removed
delete(self, table) == {r \in table : r.id # self.id}

\* A query's result as a list: the rows in the order of their ids.  (The
\* store promises no order; every claim below reads the list as a collection.)
RECURSIVE ById(_)
ById(S) ==
    IF S = {} THEN <<>>
    ELSE LET first == CHOOSE r \in S : \A o \in S : r.id <= o.id
         IN <<first>> \o ById(S \ {first})

\* Product.all()
all(table) == ById(table)

\* Product.find(product_id): the instance in a one-element list, or the
\* not-found sentinel, the empty list.  The id arrives as the path segment.
find(table, product_id) ==
    IF IsInt(product_id)
    THEN ById({r \in table : r.id = IntOf(product_id)})
    ELSE <<>>

find_by_name(table, name) == ById({r \in table : r.name = name})

find_by_category(table, category) == ById({r \in table : r.category = category})

find_by_availability(table, available) == ById({r \in table : r.available = available})

\* Product.find_by_price(price): a Decimal, or a string that is made one
find_by_price(table, price) ==
    LET price_value == IF IsDecimal(price) THEN Decimal(price) ELSE None
    IN ById({r \in table : r.price = price_value})

-----------------------------------------------------------------------------
(* Responses *)

NoLocation == <<>>

\* jsonify(<a mapping>)
JsonObject(status, object, location) ==
    [status |-> status, kind |-> "object", items |-> <<object>>, message |-> <<>>,
     location |-> location]

\* jsonify(<a list of mappings>)
JsonList(status, list) ==
    [status |-> status, kind |-> "list", items |-> list, message |-> <<>>,
     location |-> NoLocation]

\* jsonify({"message": ...}), and the body of an abort() or of a translated error
JsonMessage(status, message) ==
    [status |-> status, kind |-> "message", items |-> <<>>, message |-> message,
     location |-> NoLocation]

\* "", status
Empty(status) ==
    [status |-> status, kind |-> "empty", items |-> <<>>, message |-> <<>>,
     location |-> NoLocation]

\* What a handler leaves behind: the table, the id sequence, the response.
Outcome(table, seq, resp) == [rows |-> table, next_id |-> seq, response |-> resp]

\* The error translation outside the handlers: a DataValidationError that
\* leaves a handler becomes a 400 with its message, any other exception a 500.
error_handler(error, message) ==
    IF error = "DataValidationError"
    THEN JsonMessage(HTTP_400_BAD_REQUEST, message)
    ELSE JsonMessage(HTTP_500_INTERNAL_SERVER_ERROR, <<"Internal Server Error">>)

\* f"Product with id {product_id} not found."
NotFoundMessage(product_id) == <<"Product with id ">> \o product_id \o <<" not found.">>

\* url_for("get_products", product_id=...): the path of GET /products/{id}
url_for_get_products(product_id) == <<"/products/">> \o IntStr(product_id)

\* The routing of /products/<product_id>: the segment after the prefix
RoutedProductId(path) == SubSeq(path, 2, Len(path))

-----------------------------------------------------------------------------
(* service/routes.py *)

healthcheck(req, table, seq) ==
    Outcome(table, seq,
            JsonObject(HTTP_200_OK, [status |-> JNum(200), message |-> JStr(<<"O","K">>)],
                       NoLocation))

\* TRUE when the check returns; FALSE when it aborts with 415
check_content_type(headers, content_type) ==
    IF "Content-Type" \notin DOMAIN headers THEN FALSE
    ELSE headers["Content-Type"] = content_type

UnsupportedMediaType(content_type) ==
    JsonMessage(HTTP_415_UNSUPPORTED_MEDIA_TYPE, <<"Content-Type must be ", content_type>>)

\* create_products with the response body built before create() has run
create_products_SerializedBeforeCreate(req, table, seq) ==
    IF ~check_content_type(req.headers, "application/json")
    THEN Outcome(table, seq, UnsupportedMediaType("application/json"))
    ELSE LET deserialized == deserialize(Product, req.json)
         IN IF ~deserialized.ok
            THEN Outcome(table, seq,
                         error_handler(deserialized.error, deserialized.message))
            ELSE LET message == serialize(deserialized.product)
                     created == create(deserialized.product, table, seq)
                     location_url == url_for_get_products(created.product.id)
                 IN Outcome(created.rows, created.next_id,
                            JsonObject(HTTP_201_CREATED, message, location_url))

\* create_products with create() run before the validation error surfaces
create_products_CreatesInvalid(req, table, seq) ==
    IF ~check_content_type(req.headers, "application/json")
    THEN Outcome(table, seq, UnsupportedMediaType("application/json"))
    ELSE LET deserialized == deserialize(Product, req.json)
             created == create(deserialized.product, table, seq)
         IN IF ~deserialized.ok
            THEN Outcome(created.rows, created.next_id,
                         error_handler(deserialized.error, deserialized.message))
            ELSE Outcome(created.rows, created.next_id,
                         JsonObject(HTTP_201_CREATED, serialize(created.product),
                                    url_for_get_products(created.product.id)))

create_products(req, table, seq) ==
    IF ~check_content_type(req.headers, "application/json")
    THEN Outcome(table, seq, UnsupportedMediaType("application/json"))
    ELSE LET data == req.json
             deserialized == deserialize(Product, data)
         IN IF ~deserialized.ok
            THEN Outcome(table, seq,
                         error_handler(deserialized.error, deserialized.message))
            ELSE LET created == create(deserialized.product, table, seq)
                     message == serialize(created.product)
                     location_url == url_for_get_products(created.product.id)
                 IN Outcome(created.rows, created.next_id,
                            JsonObject(HTTP_201_CREATED, message, location_url))

\* the mapping of the products with the last one left out
SerializeAll_DropsLast(products) ==
    [i \in 1..(Len(products) - 1) |-> serialize(products[i])]

\* map(mapper, products)
SerializeAll(products) == [i \in DOMAIN products |-> serialize(products[i])]

\* the category lookup taking the ordinals to start at 1
ResolveCategory_OneBased(category) ==
    LET by_value == IF IsInt(category) THEN CategoryByValue(IntOf(category) - 1) ELSE None
    IN IF by_value # None THEN by_value ELSE CategoryByName(upper(category))

\* the category lookup by the name as given: Category[category]
ResolveCategory_NameAsGiven(category) ==
    LET by_value == IF IsInt(category) THEN CategoryByValue(IntOf(category)) ELSE None
    IN IF by_value # None THEN by_value ELSE CategoryByName(category)

\* try: Category(int(category)); except ValueError: Category[category.upper()].
\* The member, or None when the second lookup raises KeyError.
ResolveCategory(category) ==
    LET by_value == IF IsInt(category) THEN CategoryByValue(IntOf(category)) ELSE None
    IN IF by_value # None THEN by_value ELSE CategoryByName(upper(category))

\* the availability test made without regard to letter case
AvailableFlag_AnyCase(available) == upper(available) = <<"T","R","U","E">>

\* available in [True, 'True', 'true']
AvailableFlag(available) == available \in {<<"T","r","u","e">>, <<"t","r","u","e">>}

\* list_products testing the category parameter before the name parameter
list_products_CategoryFirst(req, table, seq) ==
    LET name == IF "name" \in DOMAIN req.args THEN req.args["name"] ELSE NoneStr
        category == IF "category" \in DOMAIN req.args THEN req.args["category"]
                    ELSE NoneStr
        available == IF "available" \in DOMAIN req.args THEN req.args["available"]
                     ELSE NoneStr
    IN IF category # NoneStr
       THEN IF ResolveCategory(category) = None
            THEN Outcome(table, seq, error_handler("KeyError", <<>>))
            ELSE Outcome(table, seq,
                         JsonList(HTTP_200_OK,
                                  SerializeAll(find_by_category(table,
                                                   ResolveCategory(category)))))
       ELSE IF name # NoneStr
       THEN Outcome(table, seq,
                    JsonList(HTTP_200_OK, SerializeAll(find_by_name(table, name))))
       ELSE IF available # NoneStr
       THEN Outcome(table, seq,
                    JsonList(HTTP_200_OK,
                             SerializeAll(find_by_availability(table,
                                              AvailableFlag(available)))))
       ELSE Outcome(table, seq, JsonList(HTTP_200_OK, SerializeAll(all(table))))

list_products(req, table, seq) ==
    LET name == IF "name" \in DOMAIN req.args THEN req.args["name"] ELSE NoneStr
        category == IF "category" \in DOMAIN req.args THEN req.args["category"]
                    ELSE NoneStr
        available == IF "available" \in DOMAIN req.args THEN req.args["available"]
                     ELSE NoneStr
    IN IF name # NoneStr
       THEN Outcome(table, seq,
                    JsonList(HTTP_200_OK, SerializeAll(find_by_name(table, name))))
       ELSE IF category # NoneStr
       THEN IF ResolveCategory(category) = None
            THEN Outcome(table, seq, error_handler("KeyError", <<>>))
            ELSE Outcome(table, seq,
                         JsonList(HTTP_200_OK,
                                  SerializeAll(find_by_category(table,
                                                   ResolveCategory(category)))))
       ELSE IF available # NoneStr
       THEN Outcome(table, seq,
                    JsonList(HTTP_200_OK,
                             SerializeAll(find_by_availability(table,
                                              AvailableFlag(available)))))
       ELSE Outcome(table, seq, JsonList(HTTP_200_OK, SerializeAll(all(table))))

get_products(req, table, seq) ==
    LET product == find(table, req.product_id)
    IN IF product = <<>>
       THEN Outcome(table, seq,
                    JsonMessage(HTTP_404_NOT_FOUND, NotFoundMessage(req.product_id)))
       ELSE Outcome(table, seq, JsonObject(HTTP_200_OK, serialize(product[1]), NoLocation))

\* update_products with the lookup before the content type check
update_products_FindsFirst(req, table, seq) ==
    LET product == find(table, req.product_id)
    IN IF product = <<>>
       THEN Outcome(table, seq,
                    JsonMessage(HTTP_404_NOT_FOUND, NotFoundMessage(req.product_id)))
       ELSE IF ~check_content_type(req.headers, "application/json")
       THEN Outcome(table, seq, UnsupportedMediaType("application/json"))
       ELSE LET deserialized == deserialize(product[1], req.json)
            IN IF ~deserialized.ok
               THEN Outcome(table, seq,
                            JsonMessage(HTTP_400_BAD_REQUEST, deserialized.message))
               ELSE Outcome(update(deserialized.product, table).rows, seq,
                            JsonObject(HTTP_200_OK, serialize(deserialized.product),
                                       NoLocation))

\* update_products answering 200 without the call of update()
update_products_NotPersisted(req, table, seq) ==
    IF ~check_content_type(req.headers, "application/json")
    THEN Outcome(table, seq, UnsupportedMediaType("application/json"))
    ELSE LET product == find(table, req.product_id)
         IN IF product = <<>>
            THEN Outcome(table, seq,
                         JsonMessage(HTTP_404_NOT_FOUND, NotFoundMessage(req.product_id)))
            ELSE LET deserialized == deserialize(product[1], req.json)
                 IN IF ~deserialized.ok
                    THEN Outcome(table, seq,
                                 JsonMessage(HTTP_400_BAD_REQUEST, deserialized.message))
                    ELSE Outcome(table, seq,
                                 JsonObject(HTTP_200_OK, serialize(deserialized.product),
                                            NoLocation))

\* update_products persisting the instance as deserialize left it when it raised
update_products_PersistsOnError(req, table, seq) ==
    IF ~check_content_type(req.headers, "application/json")
    THEN Outcome(table, seq, UnsupportedMediaType("application/json"))
    ELSE LET product == find(table, req.product_id)
         IN IF product = <<>>
            THEN Outcome(table, seq,
                         JsonMessage(HTTP_404_NOT_FOUND, NotFoundMessage(req.product_id)))
            ELSE LET deserialized == deserialize(product[1], req.json)
                     updated == update(deserialized.product, table)
                 IN IF ~deserialized.ok
                    THEN Outcome(updated.rows, seq,
                                 JsonMessage(HTTP_400_BAD_REQUEST, deserialized.message))
                    ELSE Outcome(updated.rows, seq,
                                 JsonObject(HTTP_200_OK, serialize(deserialized.product),
                                            NoLocation))

\* update_products taking the id of the body, where it has one, for the
\* instance it persists
update_products_BodyId(req, table, seq) ==
    IF ~check_content_type(req.headers, "application/json")
    THEN Outcome(table, seq, UnsupportedMediaType("application/json"))
    ELSE LET product == find(table, req.product_id)
         IN IF product = <<>>
            THEN Outcome(table, seq,
                         JsonMessage(HTTP_404_NOT_FOUND, NotFoundMessage(req.product_id)))
            ELSE LET deserialized == deserialize(product[1], req.json)
                     identified ==
                         IF "id" \in DOMAIN req.json /\ req.json["id"].t = "num"
                         THEN [deserialized.product EXCEPT !.id = req.json["id"].n]
                         ELSE deserialized.product
                 IN IF ~deserialized.ok /\ deserialized.error = "DataValidationError"
                    THEN Outcome(table, seq,
                                 JsonMessage(HTTP_400_BAD_REQUEST, deserialized.message))
                    ELSE LET updated == update(identified, table)
                         IN IF ~updated.ok
                            THEN Outcome(table, seq, error_handler(updated.error, <<>>))
                            ELSE Outcome(updated.rows, seq,
                                         JsonObject(HTTP_200_OK, serialize(identified),
                                                    NoLocation))

update_products(req, table, seq) ==
    IF ~check_content_type(req.headers, "application/json")
    THEN Outcome(table, seq, UnsupportedMediaType("application/json"))
    ELSE LET product == find(table, req.product_id)
         IN IF product = <<>>
            THEN Outcome(table, seq,
                         JsonMessage(HTTP_404_NOT_FOUND, NotFoundMessage(req.product_id)))
            ELSE LET deserialized == deserialize(product[1], req.json)
                 IN IF ~deserialized.ok /\ deserialized.error = "DataValidationError"
                    THEN Outcome(table, seq,
                                 JsonMessage(HTTP_400_BAD_REQUEST, deserialized.message))
                    ELSE LET updated == update(deserialized.product, table)
                         IN IF ~updated.ok
                            THEN Outcome(table, seq, error_handler(updated.error, <<>>))
                            ELSE Outcome(updated.rows, seq,
                                         JsonObject(HTTP_200_OK,
                                                    serialize(deserialized.product),
                                                    NoLocation))

\* delete_products without the check that the product exists
delete_products_Unchecked(req, table, seq) ==
    Outcome({r \in table : ~(IsInt(req.product_id) /\ r.id = IntOf(req.product_id))},
            seq, Empty(HTTP_204_NO_CONTENT))

\* delete_products answering 204 without the call of delete()
delete_products_NotDeleted(req, table, seq) ==
    LET product == find(table, req.product_id)
    IN IF product = <<>>
       THEN Outcome(table, seq,
                    JsonMessage(HTTP_404_NOT_FOUND, NotFoundMessage(req.product_id)))
       ELSE Outcome(table, seq, Empty(HTTP_204_NO_CONTENT))

delete_products(req, table, seq) ==
    LET product == find(table, req.product_id)
    IN IF product = <<>>
       THEN Outcome(table, seq,
                    JsonMessage(HTTP_404_NOT_FOUND, NotFoundMessage(req.product_id)))
       ELSE Outcome(delete(product[1], table), seq, Empty(HTTP_204_NO_CONTENT))

-----------------------------------------------------------------------------
(* The requests the clients send *)

Hat == <<"H","a","t">>
hat == <<"h","a","t">>
Cap == <<"C","a","p">>
Red == <<"r","e","d">>
Blue == <<"b","l","u","e">>

NewProduct(name, description, price, available, category) ==
    [id |-> None, name |-> name, description |-> description, price |-> price,
     available |-> available, category |-> category]

\* The products the clients know: they share names, prices and categories
\* pairwise and differ in every attribute somewhere.
ProductInputs ==
    { NewProduct(Hat, Red, 5, TRUE, CLOTHS),
      NewProduct(Hat, Blue, 12, FALSE, FOOD),
      NewProduct(hat, Red, 12, TRUE, CLOTHS),
      NewProduct(Cap, Blue, 5, FALSE, UNKNOWN) }

\* Payloads that deserialize: a serialized product, also with the price as a
\* JSON number, also carrying an id of its own.
ValidPayloads ==
    {serialize(p) : p \in ProductInputs}
    \cup {With(serialize(p), "price", JNum(p.price)) :
             p \in {q \in ProductInputs : q.name = Hat /\ q.description = Blue}}
    \cup {With(serialize(p), "id", JNum(2)) :
             p \in {q \in ProductInputs : q.name = hat}}

\* Payloads that do not: one attribute missing or of the wrong type.
InvalidPayloads ==
    UNION { { Without(serialize(p), "name"),
              With(serialize(p), "price", JObject),
              With(serialize(p), "available", JList),
              With(serialize(p), "category", JStr(<<"S","P","O","R","T","S">>)) } :
            p \in {q \in ProductInputs : q.name = Cap} }

Payloads == ValidPayloads \cup InvalidPayloads

NoHeaders == [k \in {} |-> ""]

ContentType(value) == [k \in {"Content-Type"} |-> value]

HeaderInputs ==
    { NoHeaders, ContentType("application/json"), ContentType("plain/text"),
      ContentType("application/json; charset=utf-8") }

\* The bodies sent: every payload as application/json, and one payload under
\* each of the other headers.
BodyInputs ==
    {[headers |-> ContentType("application/json"), json |-> j] : j \in Payloads}
    \cup {[headers |-> h, json |-> serialize(NewProduct(Hat, Red, 5, TRUE, CLOTHS))] :
             h \in HeaderInputs}

\* Path segments: ids the store may have assigned, and 0 and one past the
\* last, which it never has.
PathIds == {IntStr(i) : i \in 0..(MaxProducts + 1)}

NameArgs == {Hat, hat}

CategoryArgs ==
    { <<"1">>, <<"C","L","O","T","H","S">>, <<"c","l","o","t","h","s">>, <<"0">>,
      <<"S","P","O","R","T","S">>, <<"9">> }

AvailableArgs ==
    { <<"t","r","u","e">>, <<"T","r","u","e">>, <<"T","R","U","E">>,
      <<"f","a","l","s","e">>, <<>> }

NoArgs == [k \in {} |-> <<>>]

\* A query string: each parameter absent or one of its values; every value
\* alone, and the combinations of some.
ArgInputs ==
    LET every ==
            { [k \in keys |-> choice[k]] :
                keys \in SUBSET {"name", "category", "available"},
                choice \in [name : NameArgs, category : CategoryArgs,
                            available : AvailableArgs] }
        combined(a) ==
            /\ "name" \in DOMAIN a => a["name"] = Hat
            /\ "category" \in DOMAIN a =>
                  a["category"] \in {<<"1">>, <<"c","l","o","t","h","s">>,
                                     <<"S","P","O","R","T","S">>}
            /\ "available" \in DOMAIN a =>
                  a["available"] \in {<<"t","r","u","e">>, <<"f","a","l","s","e">>}
    IN {a \in every : Cardinality(DOMAIN a) <= 1 \/ combined(a)}

Request(method, rule, product_id, headers, json, args) ==
    [method |-> method, rule |-> rule, product_id |-> product_id,
     headers |-> headers, json |-> json, args |-> args]

NoRequest == Request("", "", <<>>, NoHeaders, EmptyDict, NoArgs)

\* A call on the model: whether it returned or raised, and the payload given
\* to deserialize.
Call(op, ok, error, data) == [op |-> op, ok |-> ok, error |-> error, data |-> data]

NoCall == Call("", TRUE, "", EmptyDict)

\* The payloads given to deserialize directly: those of the requests, and the
\* ones a lenient reader would coerce.
ModelPayloads ==
    Payloads
    \cup UNION { { With(serialize(p), "available", JStr(<<"t","r","u","e">>)),
                   With(serialize(p), "available", JNum(1)),
                   With(serialize(p), "category", JStr(<<"c","l","o","t","h","s">>)),
                   With(serialize(p), "category", JNum(1)),
                   With(serialize(p), "price", JStr(<<"a","b","c">>)) } :
                 p \in {q \in ProductInputs : q.name = Cap} }

-----------------------------------------------------------------------------
(* The service: one action for each route *)

Init ==
    /\ rows = {}
    /\ next_id = 1
    /\ request = NoRequest
    /\ response = Empty(0)
    /\ before = {}
    /\ the_product = Product
    /\ call = NoCall
    /\ threads = <<>>

\* The handler ran to its response.  The store assigns at most MaxProducts
\* ids: a create past the last one is not taken.
Handled(req, outcome) ==
    /\ outcome.next_id <= MaxProducts + 1
    /\ request' = req
    /\ response' = outcome.response
    /\ rows' = outcome.rows
    /\ next_id' = outcome.next_id
    /\ before' = rows
    /\ UNCHANGED <<the_product, call, threads>>

Health ==
    LET req == Request("GET", "/health", <<>>, NoHeaders, EmptyDict, NoArgs)
    IN Handled(req, healthcheck(req, rows, next_id))

CreateProducts ==
    \E body \in BodyInputs :
        LET req == Request("POST", "/products", <<>>, body.headers, body.json, NoArgs)
        IN Handled(req, create_products(req, rows, next_id))

ListProducts ==
    \E args \in ArgInputs :
        LET req == Request("GET", "/products", <<>>, NoHeaders, EmptyDict, args)
        IN Handled(req, list_products(req, rows, next_id))

GetProducts ==
    \E product_id \in PathIds :
        LET req == Request("GET", "/products/<product_id>", product_id, NoHeaders,
                           EmptyDict, NoArgs)
        IN Handled(req, get_products(req, rows, next_id))

UpdateProducts ==
    \E product_id \in PathIds, body \in BodyInputs :
        LET req == Request("PUT", "/products/<product_id>", product_id, body.headers,
                           body.json, NoArgs)
        IN Handled(req, update_products(req, rows, next_id))

DeleteProducts ==
    \E product_id \in PathIds :
        LET req == Request("DELETE", "/products/<product_id>", product_id, NoHeaders,
                           EmptyDict, NoArgs)
        IN Handled(req, delete_products(req, rows, next_id))

Next ==
    \/ Health
    \/ CreateProducts
    \/ ListProducts
    \/ GetProducts
    \/ UpdateProducts
    \/ DeleteProducts

Spec == Init /\ [][Next]_vars

-----------------------------------------------------------------------------
(* The model called directly, as tests/test_models.py calls it *)

\* A call ended: the instance and the table are as it left them.
Called(self, made, table, seq) ==
    /\ the_product' = self
    /\ call' = made
    /\ rows' = table
    /\ next_id' = seq
    /\ before' = rows
    /\ UNCHANGED <<request, response, threads>>

\* Every required attribute of the instance is set.
Complete(self) == self.name # NoneStr /\ self.price # None /\ self.category # None

\* product = ProductFactory(); product.id = None
NewFromFactory ==
    \E made \in ProductInputs :
        Called(made, Call("ProductFactory", TRUE, "", EmptyDict), rows, next_id)

\* product = Product()
NewInstance ==
    Called(Product, Call("Product", TRUE, "", EmptyDict), rows, next_id)

\* product = Product(); product.deserialize(data)
Deserialize ==
    \E data \in ModelPayloads :
        LET result == deserialize(Product, data)
        IN Called(result.product,
                  Call("deserialize", result.ok, result.error, data),
                  rows, next_id)

\* product.create(), on an instance that has no id yet.  The call record keeps
\* the payload the instance was just deserialized from.
Create ==
    /\ the_product.id = None
    /\ Complete(the_product)
    /\ next_id <= MaxProducts
    /\ LET created == create(the_product, rows, next_id)
           data == IF call.op = "deserialize" THEN call.data ELSE EmptyDict
       IN Called(created.product, Call("create", TRUE, "", data),
                 created.rows, created.next_id)

\* product.id = None
ClearId ==
    Called([the_product EXCEPT !.id = None],
           Call("id = None", TRUE, "", EmptyDict), rows, next_id)

\* product.description = new_desc
SetDescription ==
    /\ Complete(the_product)
    /\ Called([the_product EXCEPT !.description = Blue],
              Call("description =", TRUE, "", EmptyDict), rows, next_id)

\* product.update(), on an instance without id or on one that is stored
Update ==
    /\ the_product.id = None \/ (the_product.id \in {r.id : r \in rows} /\ Complete(the_product))
    /\ LET updated == update(the_product, rows)
       IN Called(the_product, Call("update", updated.ok, updated.error, EmptyDict),
                 updated.rows, next_id)

\* product.delete(), on an instance that is stored
Delete ==
    /\ the_product.id \in {r.id : r \in rows}
    /\ Called(the_product, Call("delete", TRUE, "", EmptyDict),
              delete(the_product, rows), next_id)

\* product = Product.find(product_id), for an id that is stored
Find ==
    \E product_id \in 1..MaxProducts :
        LET found == find(rows, IntStr(product_id))
        IN /\ found # <<>>
           /\ Called(found[1], Call("find", TRUE, "", EmptyDict), rows, next_id)

ModelNext ==
    \/ NewFromFactory
    \/ NewInstance
    \/ Deserialize
    \/ Create
    \/ ClearId
    \/ SetDescription
    \/ Update
    \/ Delete
    \/ Find

ModelSpec == Init /\ [][ModelNext]_vars

-----------------------------------------------------------------------------
(* Two requests handled at once.  A server that runs handlers concurrently  *)
(* gives each request its own thread; routes.py takes no lock and opens no  *)
(* transaction around a handler, so the lookup of a handler and its         *)
(* mutation are two steps, and steps of other requests may come between.    *)

Threads == {1, 2}

\* A request in flight: where its handler stands, the instance find() gave
\* it, the status it answered with, whether it called delete() or update() on
\* a row that was gone, and whether its row was stored when it answered.
Thread(req, pc, found, status, stale, stored) ==
    [req |-> req, pc |-> pc, product |-> found, status |-> status,
     stale |-> stale, stored |-> stored]

\* The tables the requests may find: the first products, created in turn.
StoredInputs ==
    LET first == NewProduct(Hat, Red, 5, TRUE, CLOTHS)
        more == NewProduct(Cap, Blue, 5, FALSE, UNKNOWN)
    IN { {[first EXCEPT !.id = 1]} \cup {[more EXCEPT !.id = i] : i \in 2..n} :
            n \in 1..MaxProducts }

\* The requests that are interleaved: DELETE and PUT of every id, the PUT with
\* a payload that deserializes and with one that does not.
ConcurrentRequests ==
    {Request("DELETE", "/products/<product_id>", product_id, NoHeaders, EmptyDict, NoArgs) :
        product_id \in PathIds}
    \cup {Request("PUT", "/products/<product_id>", product_id,
                  ContentType("application/json"), json, NoArgs) :
             product_id \in PathIds,
             json \in { serialize(NewProduct(Hat, Blue, 12, FALSE, FOOD)),
                        With(serialize(NewProduct(Cap, Blue, 5, FALSE, UNKNOWN)),
                             "available", JList) }}

\* Both requests have arrived and neither handler has run a step.
ConcInit ==
    /\ rows \in StoredInputs
    /\ next_id = Cardinality(rows) + 1
    /\ before = rows
    /\ threads \in [Threads -> {Thread(req, "find", <<>>, 0, FALSE, FALSE) :
                                   req \in ConcurrentRequests}]
    /\ request = NoRequest
    /\ response = Empty(0)
    /\ the_product = Product
    /\ call = NoCall

\* The handler answers: its thread is done.
Answered(t, status, stale, stored) ==
    threads' = [threads EXCEPT
                   ![t] = Thread(threads[t].req, "done", threads[t].product, status,
                                 stale, stored)]

\* update_products up to its 404, delete_products up to its 404: the content
\* type is checked, then find() reads the table.
FindStep(t) ==
    LET req == threads[t].req
        found == find(rows, req.product_id)
    IN /\ threads[t].pc = "find"
       /\ IF req.method = "PUT" /\ ~check_content_type(req.headers, "application/json")
          THEN Answered(t, HTTP_415_UNSUPPORTED_MEDIA_TYPE, FALSE, FALSE)
          ELSE IF found = <<>>
          THEN Answered(t, HTTP_404_NOT_FOUND, FALSE, FALSE)
          ELSE threads' = [threads EXCEPT
                              ![t] = Thread(req, "mutate", found, 0, FALSE, FALSE)]
       /\ UNCHANGED <<rows, next_id, request, response, before, the_product, call>>

\* delete_products from delete() on.  On a row that another request removed
\* in between, delete() is undefined: it may pass, and the handler answers
\* 204, or raise, and the request ends in 500.
DeleteStep(t) ==
    LET found == threads[t].product[1]
    IN IF found.id \in {r.id : r \in rows}
       THEN /\ rows' = delete(found, rows)
            /\ Answered(t, HTTP_204_NO_CONTENT, FALSE, FALSE)
       ELSE /\ rows' = rows
            /\ \E status \in {HTTP_204_NO_CONTENT, HTTP_500_INTERNAL_SERVER_ERROR} :
                  Answered(t, status, TRUE, FALSE)

\* update_products from deserialize() on.  On a row that another request
\* removed in between, update() is undefined: it may raise (500), pass
\* without a row to write to, or write the row anew.
UpdateStep(t) ==
    LET deserialized == deserialize(threads[t].product[1], threads[t].req.json)
        updated == update(deserialized.product, rows)
    IN IF ~deserialized.ok /\ deserialized.error = "DataValidationError"
       THEN /\ rows' = rows
            /\ Answered(t, HTTP_400_BAD_REQUEST, FALSE, FALSE)
       ELSE IF deserialized.product.id \in {r.id : r \in rows}
       THEN /\ rows' = updated.rows
            /\ Answered(t, HTTP_200_OK, FALSE, TRUE)
       ELSE \/ /\ rows' = rows
               /\ Answered(t, HTTP_500_INTERNAL_SERVER_ERROR, TRUE, FALSE)
            \/ /\ rows' = rows
               /\ Answered(t, HTTP_200_OK, TRUE, FALSE)
            \/ /\ rows' = updated.rows
               /\ Answered(t, HTTP_200_OK, TRUE, TRUE)

MutateStep(t) ==
    /\ threads[t].pc = "mutate"
    /\ IF threads[t].req.method = "DELETE" THEN DeleteStep(t) ELSE UpdateStep(t)
    /\ UNCHANGED <<next_id, request, response, before, the_product, call>>

ConcNext ==
    \/ \E t \in Threads : FindStep(t)
    \/ \E t \in Threads : MutateStep(t)

ConcSpec == ConcInit /\ [][ConcNext]_vars

-----------------------------------------------------------------------------
(* What the claims speak of *)

IsCreate == request.method = "POST" /\ request.rule = "/products"
IsList   == request.method = "GET" /\ request.rule = "/products"
IsGet    == request.method = "GET" /\ request.rule = "/products/<product_id>"
IsUpdate == request.method = "PUT" /\ request.rule = "/products/<product_id>"
IsDelete == request.method = "DELETE" /\ request.rule = "/products/<product_id>"

\* The Content-Type header is present and is exactly application/json.
JsonContentType ==
    /\ "Content-Type" \in DOMAIN request.headers
    /\ request.headers["Content-Type"] = "application/json"

\* A numeric JSON value: a number, or a string of digits.
Numeric(v) == v.t = "num" \/ (v.t = "str" /\ AllDigits(v.s))

\* The number a numeric JSON value stands for.
NumericValue(v) == IF v.t = "num" THEN v.n ELSE DigitsVal(v.s)

\* A valid product payload: every attribute present and of its type.
ValidPayload(d) ==
    /\ {"name", "description", "price", "available", "category"} \subseteq DOMAIN d
    /\ d["name"].t = "str"
    /\ d["description"].t = "str"
    /\ Numeric(d["price"])
    /\ d["available"].t = "bool"
    /\ d["category"].t = "str"
    /\ \E i \in DOMAIN CategoryNames : CategoryNames[i] = d["category"].s

\* A serialized product carries the attribute values of a payload, the price
\* compared as a number.
SameValues(body, d) ==
    /\ body["name"] = d["name"]
    /\ body["description"] = d["description"]
    /\ Numeric(body["price"]) /\ NumericValue(body["price"]) = NumericValue(d["price"])
    /\ body["available"] = d["available"]
    /\ body["category"] = d["category"]

\* The ids of the rows of a table.
Ids(table) == {r.id : r \in table}

\* The id a path segment names.
PathId == DigitsVal(request.product_id)

\* The response to a request handled now, in the current state.
GetNow(product_id) ==
    get_products(Request("GET", "/products/<product_id>", product_id, NoHeaders,
                         EmptyDict, NoArgs), rows, next_id).response

ListOf(table, args) ==
    list_products(Request("GET", "/products", <<>>, NoHeaders, EmptyDict, args),
                  table, next_id).response

\* The elements of a list.
Range(list) == {list[i] : i \in DOMAIN list}

-----------------------------------------------------------------------------
(* The claims *)

\* C1: a valid payload POSTed as application/json is answered 201 with the
\* serialized product, its category the enum name as a string, and a Location
\* naming GET /products/{id} of the id just assigned; a GET of that location
\* issued next is answered 200 with the same name, description, price,
\* available and category.
C1_CreateThenRead ==
    (IsCreate /\ JsonContentType /\ ValidPayload(request.json)) =>
        /\ response.status = 201
        /\ response.kind = "object"
        /\ LET body == response.items[1]
           IN /\ body["id"].t = "num"
              /\ body["id"].n \notin Ids(before)
              /\ body["id"].n \in Ids(rows)
              /\ SameValues(body, request.json)
              /\ body["category"].t = "str"
              /\ response.location = <<"/products/">> \o IntStr(body["id"].n)
              /\ LET read == GetNow(RoutedProductId(response.location))
                 IN /\ read.status = 200
                    /\ read.kind = "object"
                    /\ read.items[1]["id"] = body["id"]
                    /\ SameValues(read.items[1], request.json)

\* C1 happens: a second product is created from a payload whose price is a
\* JSON number.
C1_Witness ==
    /\ IsCreate /\ JsonContentType /\ ValidPayload(request.json)
    /\ request.json["price"].t = "num"
    /\ response.status = 201
    /\ Cardinality(rows) = 2

\* C2: POST /products and PUT /products/{id} answer 415 whenever the
\* Content-Type header is absent or is not exactly application/json, and the
\* stored products are then unchanged; PUT answers 415 also for an unknown id.
C2_UnsupportedMediaType ==
    ((IsCreate \/ IsUpdate) /\ ~JsonContentType) =>
        /\ response.status = 415
        /\ rows = before

\* C2 happens: a PUT to an id that names no product, under a Content-Type
\* that only starts with application/json, with products stored.
C2_Witness ==
    /\ IsUpdate
    /\ "Content-Type" \in DOMAIN request.headers
    /\ request.headers["Content-Type"] = "application/json; charset=utf-8"
    /\ PathId \notin Ids(before)
    /\ before # {}
    /\ response.status = 415

\* C3: a POST whose JSON body fails deserialization is answered 400 with a
\* message and adds no product: GET /products lists the same before and after.
C3_CreateInvalid ==
    (IsCreate /\ JsonContentType /\ ~ValidPayload(request.json)) =>
        /\ response.status = 400
        /\ response.kind = "message"
        /\ response.message # <<>>
        /\ rows = before
        /\ ListOf(rows, NoArgs) = ListOf(before, NoArgs)

\* C3 happens: a payload without the name key is refused while a product is
\* stored.
C3_Witness ==
    /\ IsCreate /\ JsonContentType
    /\ "name" \notin DOMAIN request.json
    /\ response.status = 400
    /\ before # {}

\* C4: for an id that names no stored product, GET, PUT (with the JSON
\* content type) and DELETE of /products/{id} are answered 404 with the
\* message "Product with id {id} not found.", and the stored products are
\* unchanged.
C4_NotFound ==
    ((IsGet \/ (IsUpdate /\ JsonContentType) \/ IsDelete) /\ PathId \notin Ids(before)) =>
        /\ response.status = 404
        /\ response.kind = "message"
        /\ response.message =
              <<"Product with id ">> \o request.product_id \o <<" not found.">>
        /\ rows = before

\* C4 happens: a DELETE of an id that names no product, with products stored.
C4_Witness ==
    /\ IsDelete
    /\ PathId \notin Ids(before)
    /\ Cardinality(before) = 2
    /\ response.status = 404

\* C5: a PUT of a valid payload, as JSON, to the id of a stored product is
\* answered 200 with the serialized product carrying the payload's values; a
\* GET of the id issued next returns the same; the product keeps its id, the
\* number of stored products is unchanged, and so is every other product.
C5_Update ==
    (IsUpdate /\ JsonContentType /\ PathId \in Ids(before) /\ ValidPayload(request.json)) =>
        /\ response.status = 200
        /\ response.kind = "object"
        /\ LET body == response.items[1]
               read == GetNow(request.product_id)
           IN /\ SameValues(body, request.json)
              /\ body["id"] = JNum(PathId)
              /\ read.status = 200
              /\ read.kind = "object"
              /\ SameValues(read.items[1], request.json)
              /\ read.items[1]["id"] = JNum(PathId)
        /\ PathId \in Ids(rows)
        /\ Cardinality(rows) = Cardinality(before)
        /\ {r \in rows : r.id # PathId} = {r \in before : r.id # PathId}

\* C5 happens: one of two stored products takes new values from a payload
\* that carries the other one's id.
C5_Witness ==
    /\ IsUpdate /\ JsonContentType /\ ValidPayload(request.json)
    /\ Cardinality(before) = 2
    /\ PathId \in Ids(before)
    /\ request.json["id"].t = "num" /\ request.json["id"].n # PathId
    /\ \E r \in before : r.id = PathId /\ r.name # request.json["name"].s
    /\ response.status = 200

\* C6: a PUT, as JSON, to the id of a stored product with a payload that
\* fails deserialization is answered 400 with a message and stores nothing:
\* GET /products/{id} and GET /products return afterwards what they returned
\* before, also when valid attributes precede the invalid one.
C6_UpdateInvalid ==
    (IsUpdate /\ JsonContentType /\ PathId \in Ids(before) /\ ~ValidPayload(request.json)) =>
        /\ response.status = 400
        /\ response.kind = "message"
        /\ response.message # <<>>
        /\ rows = before
        /\ GetNow(request.product_id) =
              get_products(request, before, next_id).response
        /\ ListOf(rows, NoArgs) = ListOf(before, NoArgs)

\* C6 happens: the payload's price is an object, and its name, which is
\* valid, is not the stored product's.
C6_Witness ==
    /\ IsUpdate /\ JsonContentType
    /\ PathId \in Ids(before)
    /\ "name" \in DOMAIN request.json
    /\ request.json["price"].t = "obj"
    /\ \E r \in before : r.id = PathId /\ r.name # request.json["name"].s
    /\ response.status = 400

\* A product id is gone from a table: GET /products/{id} answers 404 and
\* GET /products lists no product of that id.
Gone(table, id) ==
    /\ get_products(Request("GET", "/products/<product_id>", IntStr(id), NoHeaders,
                            EmptyDict, NoArgs), table, next_id).response.status = 404
    /\ \A item \in Range(ListOf(table, NoArgs).items) : item["id"] # JNum(id)

\* C7: a DELETE of the id of a stored product is answered 204 with an empty
\* body; the product is then gone and every other product is stored as it
\* was; and a product that was gone when a request arrived is still gone
\* after it, unless the request is a create.
C7_Delete ==
    /\ (IsDelete /\ PathId \in Ids(before)) =>
          /\ response.status = 204
          /\ response.kind = "empty"
          /\ Gone(rows, PathId)
          /\ rows = {r \in before : r.id # PathId}
    /\ ~IsCreate => \A id \in 1..MaxProducts : Gone(before, id) => Gone(rows, id)

\* C7 happens: one of two stored products is deleted.
C7_Witness ==
    /\ IsDelete
    /\ PathId \in Ids(before)
    /\ Cardinality(before) = 2
    /\ response.status = 204

\* The parameter that decides the filter: name before category before
\* available.
Winner(args) ==
    IF "name" \in DOMAIN args THEN {"name"}
    ELSE IF "category" \in DOMAIN args THEN {"category"}
    ELSE IF "available" \in DOMAIN args THEN {"available"}
    ELSE {}

Only(args, keys) == [k \in (DOMAIN args) \cap keys |-> args[k]]

\* A response is 200 with the products of S serialized, each once.
Exactly(resp, S) ==
    /\ resp.status = 200
    /\ resp.kind = "list"
    /\ Len(resp.items) = Cardinality(S)
    /\ Range(resp.items) = {serialize(r) : r \in S}

TrueOrFalse(b) == IF b THEN <<"t","r","u","e">> ELSE <<"f","a","l","s","e">>

\* C9: in every state the creates, updates and deletes lead to, GET /products
\* returns exactly the stored products, each once, and with a name, category
\* or available parameter exactly those whose attribute is the parameter's
\* value; find_by_price returns exactly those of the price, given as a number
\* or as a numeric string.
C9_Filters ==
    /\ Exactly(ListOf(rows, NoArgs), rows)
    /\ \A n \in {Hat, hat, Cap} :
          Exactly(ListOf(rows, [name |-> n]), {r \in rows : r.name = n})
    /\ \A c \in Category :
          Exactly(ListOf(rows, [category |-> CategoryNames[c + 1]]),
                  {r \in rows : r.category = c})
    /\ \A b \in BOOLEAN :
          Exactly(ListOf(rows, [available |-> TrueOrFalse(b)]),
                  {r \in rows : r.available = b})
    /\ \A p \in {q.price : q \in ProductInputs} \cup {7} :
          \A price \in {JNum(p), JStr(NatStr(p))} :
              /\ Range(find_by_price(rows, price)) = {r \in rows : r.price = p}
              /\ Len(find_by_price(rows, price)) = Cardinality({r \in rows : r.price = p})

\* C9 happens: a name filter returns one of two stored products, whose names
\* differ in case only.
C9_Witness ==
    /\ IsList
    /\ DOMAIN request.args = {"name"}
    /\ Len(response.items) = 1
    /\ {r.name : r \in rows} = {Hat, hat}
    /\ Cardinality(rows) = 2

\* C10: for every member c of Category, GET /products?category= the ordinal
\* of c as a string and GET /products?category= the name of c both answer
\* 200 with the same list, the products whose category is c.
C10_OrdinalOrName ==
    \A c \in Category :
        LET by_ordinal == ListOf(rows, [category |-> IntStr(c)])
            by_name == ListOf(rows, [category |-> CategoryNames[c + 1]])
        IN /\ by_ordinal.status = 200
           /\ by_name.status = 200
           /\ by_ordinal.items = by_name.items
           /\ Len(by_ordinal.items) = Cardinality({r \in rows : r.category = c})
           /\ \A i \in DOMAIN by_ordinal.items :
                 by_ordinal.items[i]["category"] = JStr(CategoryNames[c + 1])

\* C10 happens: the category is given as the ordinal 1 and selects one of two
\* stored products.
C10_Witness ==
    /\ IsList
    /\ DOMAIN request.args = {"category"}
    /\ request.args["category"] = <<"1">>
    /\ Len(response.items) = 1
    /\ Cardinality(rows) = 2

\* Values of the available parameter, the ones the clients send among them.
AvailableValues ==
    AvailableArgs \cup {<<"1">>, <<"y","e","s">>, <<"F","a","l","s","e">>, <<"t","R","U","E">>}

\* C11: GET /products?available=v, with no name and no category, answers 200
\* in every case, with exactly the available products when v is "true" or
\* "True" and with exactly the products that are not available for every
\* other v, the empty string, "TRUE", "1", "yes" and "false" among them.
C11_Available ==
    /\ \A v \in AvailableValues :
          Exactly(ListOf(rows, [available |-> v]),
                  {r \in rows :
                      r.available = (v = <<"t","r","u","e">> \/ v = <<"T","r","u","e">>)})
    /\ (IsList /\ DOMAIN request.args = {"available"}) =>
          /\ response.status = 200
          /\ \A i \in DOMAIN response.items :
                response.items[i]["available"] =
                    JBool(request.args["available"] \in
                              {<<"t","r","u","e">>, <<"T","r","u","e">>})

\* C11 happens: available=TRUE lists the one product that is not available
\* and leaves out the one that is.
C11_Witness ==
    /\ IsList
    /\ DOMAIN request.args = {"available"}
    /\ request.args["available"] = <<"T","R","U","E">>
    /\ Len(response.items) = 1
    /\ {r.available : r \in rows} = {TRUE, FALSE}

\* Spellings of a category parameter: ordinals, names in upper, lower and
\* mixed case, and strings that are neither.
CategoryValues ==
    CategoryArgs \cup {IntStr(c) : c \in Category} \cup {CategoryNames[c + 1] : c \in Category}
    \cup { <<"C","l","o","t","h","s">>, <<"f","o","o","d">>, <<"6">>, <<>> }

\* The member whose ordinal the string is, or whose name it is as written.
MemberAsWritten(v) ==
    {c \in Category : v = IntStr(c) \/ v = CategoryNames[c + 1]}

\* The member whose ordinal the string is, or whose name it is in any case.
MemberAnyCase(v) ==
    {c \in Category : v = IntStr(c) \/ upper(v) = CategoryNames[c + 1]}

\* The name filter returns only products of exactly the name given.
NameIsExact ==
    (IsList /\ "name" \in DOMAIN request.args) =>
        /\ Exactly(response, {r \in rows : r.name = request.args["name"]})
        /\ \A i \in DOMAIN response.items :
              response.items[i]["name"].s = request.args["name"]

\* C12 as claimed: the name filter is exact, and a category parameter that
\* selects products is an ordinal or a member's name in upper case.
C12_AsClaimed ==
    /\ NameIsExact
    /\ (IsList /\ Winner(request.args) = {"category"} /\ response.status = 200
            /\ response.items # <<>>) =>
          MemberAsWritten(request.args["category"]) # {}

\* C12, amended: the name filter is exact; the category parameter selects a
\* member by its ordinal or by its name in whatever letter case, as it is put
\* in upper case before the lookup: the answer is then 200 with exactly that
\* member's products, and "cloths" lists what "CLOTHS" lists.
C12_CaseOfParameters ==
    /\ NameIsExact
    /\ \A v \in CategoryValues :
          \A c \in MemberAnyCase(v) :
              Exactly(ListOf(rows, [category |-> v]), {r \in rows : r.category = c})
    /\ ListOf(rows, [category |-> <<"c","l","o","t","h","s">>]) =
          ListOf(rows, [category |-> <<"C","L","O","T","H","S">>])

\* C12 happens: category=cloths lists the one product of category CLOTHS of
\* the two stored.
C12_Witness ==
    /\ IsList
    /\ DOMAIN request.args = {"category"}
    /\ request.args["category"] = <<"c","l","o","t","h","s">>
    /\ response.status = 200
    /\ Len(response.items) = 1
    /\ response.items[1]["category"].s = <<"C","L","O","T","H","S">>
    /\ Cardinality(rows) = 2

\* C13: the response to every request to /health, /products and
\* /products/{id}, whatever is stored, has one of the statuses 200, 201, 204,
\* 400, 404 and 415: no request ends in an unhandled exception.
C13_StatusCodes ==
    request # NoRequest => response.status \in {200, 201, 204, 400, 404, 415}

\* C14: an instance has no id (None) when it is made and after deserialize,
\* and has one after create(), which stores it under an id no row had;
\* update() on an instance whose id is None raises DataValidationError and the
\* table is then as it was before the call.
C14_UpdateRequiresId ==
    /\ call.op \in {"Product", "ProductFactory", "deserialize"} => the_product.id = None
    /\ call.op = "create" =>
          /\ the_product.id # None
          /\ the_product.id \notin Ids(before)
          /\ the_product \in rows
    /\ (call.op = "update" /\ the_product.id = None) =>
          /\ ~call.ok
          /\ call.error = "DataValidationError"
          /\ rows = before

\* C14 happens: a product was created, its id was set to None and update()
\* was called on it, with the row still stored.
C14_Witness ==
    /\ call.op = "update"
    /\ the_product.id = None
    /\ ~call.ok
    /\ \E r \in rows : [r EXCEPT !.id = None] = the_product

\* The five attributes of one product are those of another: the price as a
\* number, the category as an enum member.
SameAttributes(a, b) ==
    /\ a.name = b.name
    /\ a.description = b.description
    /\ a.price = b.price
    /\ a.available = b.available
    /\ a.category = b.category

\* The valid products at hand: the clients' and the stored ones.
ValidProducts == ProductInputs \cup rows

\* C15: for every valid product P, deserialize(serialize(P)) on a new
\* instance returns with P's name, description, price (as a number), available
\* and category (the same member), and create() of that instance stores a
\* row with those values.
C15_RoundTrip ==
    /\ \A P \in ValidProducts :
          LET read == deserialize(Product, serialize(P))
              created == create(read.product, rows, next_id)
          IN /\ read.ok
             /\ SameAttributes(read.product, P)
             /\ \E r \in created.rows : r.id = created.product.id /\ SameAttributes(r, P)
    /\ \A P \in ValidProducts :
          (call.op = "deserialize" /\ call.data = serialize(P)) =>
              call.ok /\ SameAttributes(the_product, P)
    /\ \A P \in ValidProducts :
          (call.op = "create" /\ call.data = serialize(P)) =>
              \E r \in rows : r.id = the_product.id /\ r.id \notin Ids(before)
                                /\ SameAttributes(r, P)

\* C15 happens: a second product was created from the serialization of a
\* product whose price has two digits and whose category is not the first.
C15_Witness ==
    /\ call.op = "create"
    /\ call.data = serialize(NewProduct(Hat, Blue, 12, FALSE, FOOD))
    /\ Cardinality(rows) = 2
    /\ \E r \in rows : r.id = the_product.id /\ r.price = 12 /\ r.category = FOOD

\* What a payload holds where a value of the right type is due.
NotBoolean(data) == "available" \in DOMAIN data /\ data["available"].t # "bool"

NotMemberName(data) ==
    /\ "category" \in DOMAIN data
    /\ \/ data["category"].t # "str"
       \/ \A i \in DOMAIN CategoryNames : CategoryNames[i] # data["category"].s

NotNumber(data) ==
    /\ "price" \in DOMAIN data
    /\ data["price"].t # "num"
    /\ \/ data["price"].t # "str"
       \/ LET s == data["price"].s
              digits == IF s # <<>> /\ s[1] \in {"+", "-"} THEN Tail(s) ELSE s
          IN digits = <<>> \/ \E i \in DOMAIN digits : ~IsDigit(digits[i])

Rejected(data) == NotBoolean(data) \/ NotMemberName(data) \/ NotNumber(data)

\* The attribute the payload is wrong in has the value it had on self.
NotCoerced(data, self, read) ==
    /\ NotBoolean(data) => read.available = self.available
    /\ NotMemberName(data) => read.category = self.category
    /\ NotNumber(data) => read.price = self.price

\* C16: deserialize raises DataValidationError for every payload whose
\* available is not a boolean, whose category is not the name of a member or
\* whose price is not convertible to a number, the other attributes valid or
\* not, on a new instance and on any instance held; the attribute is not set
\* from a coerced value.
C16_Rejects ==
    /\ (call.op = "deserialize" /\ Rejected(call.data)) =>
          /\ ~call.ok
          /\ call.error = "DataValidationError"
          /\ NotCoerced(call.data, Product, the_product)
    /\ \A data \in ModelPayloads :
          Rejected(data) =>
              LET read == deserialize(the_product, data)
              IN /\ ~read.ok
                 /\ read.error = "DataValidationError"
                 /\ NotCoerced(data, the_product, read.product)

\* C16 happens: a payload valid but for its available, the string "true", was
\* given to deserialize, which set the attributes before it and raised.
C16_Witness ==
    /\ call.op = "deserialize"
    /\ NotBoolean(call.data) /\ ~NotMemberName(call.data) /\ ~NotNumber(call.data)
    /\ call.data["available"].t = "str"
    /\ ~call.ok
    /\ the_product.name = Cap /\ the_product.price = 5
    /\ rows # {}

\* The rows of a table but the one of an id.
Others(table, id) == {r \in table : r.id # id}

\* C17: in every state reached by POST, PUT and DELETE requests no two rows
\* have the same id, every id was assigned by the store and none is assigned
\* again, and only a POST adds an id; a PUT answered 200, whatever id its body
\* carries, leaves the ids as they were, the other rows as they were, and the
\* product stored and returned under the id of the path.
C17_IdUniqueImmutable ==
    /\ \A a \in rows : \A b \in rows : a.id = b.id => a = b
    /\ \A r \in rows : r.id \in 1..(next_id - 1)
    /\ ~IsCreate => Ids(rows) \subseteq Ids(before)
    /\ IsCreate => Ids(before) \subseteq Ids(rows) /\ before \subseteq rows
    /\ (IsUpdate /\ response.status = 200) =>
          /\ Ids(rows) = Ids(before)
          /\ PathId \in Ids(rows)
          /\ Others(rows, PathId) = Others(before, PathId)
          /\ response.items[1]["id"] = JNum(PathId)
          /\ \E r \in rows : r.id = PathId /\ SameValues(serialize(r), request.json)

\* C17 happens: with two products stored, a PUT to /products/1 whose body
\* carries the id 2 was answered 200.
C17_Witness ==
    /\ IsUpdate
    /\ response.status = 200
    /\ PathId = 1
    /\ "id" \in DOMAIN request.json
    /\ request.json["id"] = JNum(2)
    /\ Ids(before) = {1, 2}

\* The requests in flight that are a DELETE, or a PUT, of an id.
Deleting(t, product_id) ==
    threads[t].req.method = "DELETE" /\ threads[t].req.product_id = product_id

Putting(t) == threads[t].req.method = "PUT"

\* C18: when two requests for the same stored id are interleaved, neither
\* delete() nor update() is called on a row that is already removed; of two
\* DELETEs of one stored id that have both been answered, one was answered 204
\* and the other 404; and a PUT answered 200 left its product stored.
C18_FindThenMutate ==
    /\ \A t \in DOMAIN threads : ~threads[t].stale
    /\ \A t \in DOMAIN threads : \A u \in DOMAIN threads \ {t} :
          \A product_id \in PathIds :
              ( /\ Deleting(t, product_id) /\ Deleting(u, product_id)
                /\ IntOf(product_id) \in Ids(before)
                /\ threads[t].pc = "done" /\ threads[u].pc = "done" ) =>
                  {threads[t].status, threads[u].status} = {204, 404}
    /\ \A t \in DOMAIN threads :
          (Putting(t) /\ threads[t].pc = "done" /\ threads[t].status = 200) =>
              threads[t].stored

====
